---- MODULE Spec2Model ----
(***************************************************************************)
(* Model of wallet_groups.py: the label classifier (extract_wallet_group), *)
(* the grouping engine (group_wallets_by_name), the balance and price      *)
(* lookups, and the three chat handlers with the router that dispatches    *)
(* to them.  Strings are sequences of one-character strings, so that       *)
(* lower(), the substring test, str.replace and the regular expressions    *)
(* are computed character by character.                                    *)
(***************************************************************************)
EXTENDS Integers, Sequences, FiniteSets, TLC

\* ------------------------------------------------------------------------
\* Bounds of the model
\* ------------------------------------------------------------------------
MaxParts == 3      \* fragments concatenated into a label (classifier spec)
MaxWallets == 2    \* wallet rows a user has in the store
MaxRecords == 3    \* records handed to group_wallets_by_name (grouping spec)

\* ------------------------------------------------------------------------
\* Characters
\* ------------------------------------------------------------------------
UpperChars == <<"A","B","C","D","E","F","G","H","I","J","K","L","M","N","O","P","Q","R","S","T","U","V","W","X","Y","Z">>
LowerChars == <<"a","b","c","d","e","f","g","h","i","j","k","l","m","n","o","p","q","r","s","t","u","v","w","x","y","z">>
DigitChars == {"0","1","2","3","4","5","6","7","8","9"}
SpaceChars == {" ", "\n", "\t"}

OtherChars == {"-", ".", "/", "?", "_"}
Letters == {UpperChars[i] : i \in 1..Len(UpperChars)} \cup {LowerChars[i] : i \in 1..Len(LowerChars)}
Chars == Letters \cup DigitChars \cup SpaceChars \cup OtherChars

\* str.lower() and str.upper() on one character, tabulated
LowerTable == [c \in Chars |->
  IF \E i \in 1..Len(UpperChars) : UpperChars[i] = c
  THEN LowerChars[CHOOSE i \in 1..Len(UpperChars) : UpperChars[i] = c]
  ELSE c]
UpperTable == [c \in Chars |->
  IF \E i \in 1..Len(LowerChars) : LowerChars[i] = c
  THEN UpperChars[CHOOSE i \in 1..Len(LowerChars) : LowerChars[i] = c]
  ELSE c]

LowerChar(c) == LowerTable[c]
UpperChar(c) == UpperTable[c]

\* str.lower()
Lower(s) == [i \in 1..Len(s) |-> LowerChar(s[i])]

\* `needle in hay` for strings
Contains(hay, needle) ==
  \E i \in 0..(Len(hay) - Len(needle)) : SubSeq(hay, i + 1, i + Len(needle)) = needle

\* str.startswith
StartsWith(s, p) == Len(s) >= Len(p) /\ SubSeq(s, 1, Len(p)) = p

\* ------------------------------------------------------------------------
\* KNOWN_WALLET_NAMES as written in the source, before the sort
\* ------------------------------------------------------------------------
KNOWN_WALLET_NAMES_LITERAL ==
    << 
       <<"T","r","u","s","t"," ","W","a","l","l","e","t">>,
       <<"M","e","t","a","M","a","s","k">>,
       <<"C","o","i","n","b","a","s","e"," ","W","a","l","l","e","t">>,
       <<"L","e","d","g","e","r">>,
       <<"T","r","e","z","o","r">>,
       <<"E","x","o","d","u","s">>,
       <<"P","h","a","n","t","o","m">>,
       <<"R","a","i","n","b","o","w">>,
       <<"S","a","f","e","P","a","l">>,
       <<"A","r","g","e","n","t">>,
       <<"Z","e","r","i","o","n">>,
       <<"R","a","b","b","y">>,
       <<"B","i","n","a","n","c","e">>,
       <<"C","o","i","n","b","a","s","e">>,
       <<"K","r","a","k","e","n">>,
       <<"K","u","c","o","i","n">>,
       <<"B","y","b","i","t">>,
       <<"O","K","X">>,
       <<"H","u","o","b","i">>,
       <<"G","a","t","e",".","i","o">>,
       <<"B","i","t","f","i","n","e","x">>,
       <<"G","e","m","i","n","i">>,
       <<"L","e","d","g","e","r"," ","N","a","n","o">>,
       <<"T","r","e","z","o","r"," ","O","n","e">>,
       <<"T","r","e","z","o","r"," ","M","o","d","e","l"," ","T">>,
       <<"K","e","e","p","K","e","y">>,
       <<"B","i","t","B","o","x">>,
       <<"C","o","o","l","W","a","l","l","e","t">>,
       <<"M","a","i","n">>,
       <<"T","r","a","d","i","n","g">>,
       <<"S","a","v","i","n","g","s">>,
       <<"C","o","l","d"," ","S","t","o","r","a","g","e">>,
       <<"H","o","t"," ","W","a","l","l","e","t">>,
       <<"D","e","F","i">>,
       <<"N","F","T">>,
       <<"G","a","m","i","n","g">>,
       <<"S","t","a","k","i","n","g">>,
       <<"A","i","r","d","r","o","p">>,
       <<"P","e","r","s","o","n","a","l">>,
       <<"B","u","s","i","n","e","s","s">>,
       <<"F","a","m","i","l","y">>,
       <<"F","r","i","e","n","d","s">>
    >>

\* a sort that is not stable: ties come out in reversed order
InsertByLenUnstable(sorted, x) ==
  LET k == Cardinality({i \in 1..Len(sorted) : Len(sorted[i]) > Len(x)})
  IN SubSeq(sorted, 1, k) \o <<x>> \o SubSeq(sorted, k + 1, Len(sorted))

RECURSIVE SortByLenDescUnstable(_)
SortByLenDescUnstable(seq) ==
  IF seq = <<>> THEN <<>>
  ELSE InsertByLenUnstable(SortByLenDescUnstable(SubSeq(seq, 1, Len(seq) - 1)), seq[Len(seq)])

\* list.sort(key=len, reverse=True): a stable sort, elements of equal length
\* keep their original relative order.  Insert x behind every element that
\* is at least as long.
InsertByLen(sorted, x) ==
  LET k == Cardinality({i \in 1..Len(sorted) : Len(sorted[i]) >= Len(x)})
  IN SubSeq(sorted, 1, k) \o <<x>> \o SubSeq(sorted, k + 1, Len(sorted))

RECURSIVE SortByLenDesc(_)
SortByLenDesc(seq) ==
  IF seq = <<>> THEN <<>>
  ELSE InsertByLen(SortByLenDesc(SubSeq(seq, 1, Len(seq) - 1)), seq[Len(seq)])

\* the module-level list after line 74
KNOWN_WALLET_NAMES == SortByLenDesc(KNOWN_WALLET_NAMES_LITERAL)

\* ------------------------------------------------------------------------
\* extract_wallet_group
\* ------------------------------------------------------------------------
None == <<"None">>            \* Python's None; no string equals it

AlnumChars == Letters \cup DigitChars
IsAlnum(c) == c \in AlnumChars                             \* [A-Za-z0-9]
IsWord(c) == IsAlnum(c) \/ c = "_"                         \* \w
IsSpace(c) == c \in SpaceChars                             \* \s

\* a leading run that takes the underscore too
AlnumRunUnderscore(s) == CHOOSE n \in 0..Len(s) :
  /\ \A i \in 1..n : IsWord(s[i])
  /\ (n < Len(s) => ~IsWord(s[n + 1]))

\* length of the longest prefix of s whose characters all satisfy the class
AlnumRun(s) == CHOOSE n \in 0..Len(s) :
  /\ \A i \in 1..n : IsAlnum(s[i])
  /\ (n < Len(s) => ~IsAlnum(s[n + 1]))
SpaceRun(s) == CHOOSE n \in 0..Len(s) :
  /\ \A i \in 1..n : IsSpace(s[i])
  /\ (n < Len(s) => ~IsSpace(s[n + 1]))
WordRun(s) == CHOOSE n \in 0..Len(s) :
  /\ \A i \in 1..n : IsWord(s[i])
  /\ (n < Len(s) => ~IsWord(s[n + 1]))

Drop(s, n) == SubSeq(s, n + 1, Len(s))                     \* s[n:]

WalletWord == <<"W","a","l","l","e","t">>
ExchangeWord == <<"E","x","c","h","a","n","g","e">>

\* re.match(r'^([A-Za-z0-9]+)\s+<word>', label): the classes [A-Za-z0-9],
\* \s and the first letter of the word are disjoint, so both runs are
\* maximal and there is one way to match.  None when there is no match,
\* group(1) otherwise.
MatchTokenThen(label, word) ==
  LET n == AlnumRun(label)
      m == SpaceRun(Drop(label, n))
  IN IF n >= 1 /\ m >= 1 /\ StartsWith(Drop(label, n + m), word)
     THEN SubSeq(label, 1, n) ELSE None

\* a two-word pattern whose second word may hold any character but whitespace
MatchTwoWordsLoose(label) ==
  LET n == AlnumRun(label)
      m == SpaceRun(Drop(label, n))
      rest == Drop(label, n + m)
  IN IF n >= 1 /\ m >= 1 /\ rest # <<>> /\ \A i \in 1..Len(rest) : ~IsSpace(rest[i])
     THEN SubSeq(label, 1, n) ELSE None

\* re.match(r'^([A-Za-z0-9]+)\s+\w+$', label); `$` matches at the end of the
\* string and also just before a newline that ends the string.
MatchTwoWords(label) ==
  LET n == AlnumRun(label)
      m == SpaceRun(Drop(label, n))
      rest == Drop(label, n + m)
      w == WordRun(rest)
  IN IF n >= 1 /\ m >= 1 /\ w >= 1
        /\ (w = Len(rest) \/ (w = Len(rest) - 1 /\ rest[Len(rest)] = "\n"))
     THEN SubSeq(label, 1, n) ELSE None

\* wallet_name.lower() of every entry of the list
KNOWN_LOWER == [i \in 1..Len(KNOWN_WALLET_NAMES) |-> Lower(KNOWN_WALLET_NAMES[i])]

\* the loop over KNOWN_WALLET_NAMES, lines 93-95: the first entry, in list
\* order, whose lower-cased form occurs in the lower-cased label
KnownMatch(label) ==
  LET label_lower == Lower(label)
      hits == {i \in 1..Len(KNOWN_WALLET_NAMES) : Contains(label_lower, KNOWN_LOWER[i])}
  IN IF hits = {} THEN None
     ELSE KNOWN_WALLET_NAMES[CHOOSE i \in hits : \A j \in hits : i <= j]

\* the loop over the patterns (lines 99-108)
PatternMatch(label) ==
  LET first == MatchTokenThen(label, WalletWord)
      second == MatchTokenThen(label, ExchangeWord)
  IN IF first # None THEN first
     ELSE IF second # None THEN second
     ELSE MatchTwoWords(label)

extract_wallet_group(label) ==
  LET known == KnownMatch(label)
  IN IF known # None THEN known ELSE PatternMatch(label)

\* ------------------------------------------------------------------------
\* group_wallets_by_name
\* ------------------------------------------------------------------------
UNGROUPED == <<"_","u","n","g","r","o","u","p","e","d">>

EmptyDict == [k \in {} |-> <<>>]

\* Python truthiness of an Optional[str]: None and "" are falsy
Truthy(g) == g # None /\ g # <<>>

\* d[k] = v
DictSet(d, k, v) == [x \in (DOMAIN d) \cup {k} |-> IF x = k THEN v ELSE d[x]]

\* a bucket that is reset on every append
BucketResetAppend(groups, k, w) == DictSet(groups, k, <<w>>)

\* lines 132-134: create the bucket when it is missing, then append
BucketAppend(groups, k, w) ==
  IF k \in DOMAIN groups THEN DictSet(groups, k, Append(groups[k], w))
  ELSE DictSet(groups, k, <<w>>)

\* the for loop of lines 126-136 after its first n iterations
RECURSIVE GroupLoop(_, _)
GroupLoop(wallets, n) ==
  IF n = 0 THEN [groups |-> EmptyDict, ungrouped |-> <<>>]
  ELSE LET prev == GroupLoop(wallets, n - 1)
           wallet == wallets[n]
           group_name == extract_wallet_group(wallet.label)
       IN IF Truthy(group_name)
          THEN [prev EXCEPT !.groups = BucketAppend(prev.groups, group_name, wallet)]
          ELSE [prev EXCEPT !.ungrouped = Append(prev.ungrouped, wallet)]

group_wallets_by_name(wallets) ==
  LET r == GroupLoop(wallets, Len(wallets))
  IN IF r.ungrouped # <<>> THEN DictSet(r.groups, UNGROUPED, r.ungrouped)
     ELSE r.groups

\* ------------------------------------------------------------------------
\* get_simple_price and get_wallet_balance
\* ------------------------------------------------------------------------
\* JSON values a payload field can hold: a number, a value of another type
\* (null, a string that is no number), or the field is absent
Num(n) == [t |-> "num", v |-> n]
BadValue == [t |-> "bad", v |-> 0]
Missing == [t |-> "missing", v |-> 0]

\* units of the raw amounts.  Etherscan reports wei and the code divides by
\* 1e18; amounts are carried here in units of 10^9 wei, so that the same
\* quotient is taken by dividing by 10^9.
EthDivisor == 1000000000
TronDivisor == 1000000
SolDivisor == 1000000000

Upper(s) == [i \in 1..Len(s) |-> UpperChar(s[i])]

\* the coin_ids table of get_simple_price
coin_ids ==
  [k \in {<<"E","T","H">>, <<"T","R","X">>, <<"S","O","L">>, <<"B","N","B">>, <<"M","A","T","I","C">>, <<"T","O","N">>} |->
     CASE k = <<"E","T","H">> -> <<"e","t","h","e","r","e","u","m">>
       [] k = <<"T","R","X">> -> <<"t","r","o","n">>
       [] k = <<"S","O","L">> -> <<"s","o","l","a","n","a">>
       [] k = <<"B","N","B">> -> <<"b","i","n","a","n","c","e","c","o","i","n">>
       [] k = <<"M","A","T","I","C">> -> <<"m","a","t","i","c","-","n","e","t","w","o","r","k">>
       [] k = <<"T","O","N">> -> <<"t","h","e","-","o","p","e","n","-","n","e","t","w","o","r","k">>]

\* a price lookup that answers null instead of 0 when the request fails
get_simple_price_null(symbol, resp) ==
  IF resp.kind = "timeout" \/ resp.status # 200 \/ ~resp.json THEN BadValue
  ELSE IF resp.usd.t = "missing" THEN Num(0)
  ELSE resp.usd

\* An HTTP exchange as the caller sees it: kind "timeout" when session.get
\* raises (timeout, connection error), else a response with a status, a body
\* that parses as a JSON object or not, and the fields of that object.
\* Price payload: {<coin>: {"usd": <usd>}}.
get_simple_price(symbol, resp) ==
  LET coin_id == IF Upper(symbol) \in DOMAIN coin_ids
                 THEN coin_ids[Upper(symbol)] ELSE Lower(symbol)
  IN IF resp.kind = "timeout" THEN Num(0)                   \* except: pass
     ELSE IF resp.status # 200 THEN Num(0)
     ELSE IF ~resp.json THEN Num(0)                         \* r.json() raises
     ELSE IF resp.coin # coin_id THEN Num(0)                \* .get(coin_id, {})
     ELSE IF resp.usd.t = "missing" THEN Num(0)             \* .get("usd", 0)
     ELSE resp.usd

ZeroResult(symbol) == [native_amount |-> 0, usd_value |-> 0, token_symbol |-> symbol]

Returned(v) == [out |-> "return", value |-> v]
Raised == [out |-> "raise", value |-> ZeroResult(<<"?">>)]
FellThrough == [out |-> "fall", value |-> ZeroResult(<<"?">>)]

\* lines 170-179, 187-195, 207-215: amount / divisor, the price lookup and
\* the multiplication; a value that is no number makes the arithmetic raise
Priced(amount, divisor, symbol, priceResp) ==
  LET price == get_simple_price(symbol, priceResp)
  IN IF amount.t # "num" THEN Raised
     ELSE IF price.t # "num" THEN Raised
     ELSE Returned([native_amount |-> amount.v \div divisor,
                    usd_value |-> (amount.v \div divisor) * price.v,
                    token_symbol |-> symbol])

\* the body of the try block, lines 156-215.  Balance payload: js.status is
\* the "status" field, js.amount the field the branch reads ("result",
\* "balance" or "lamports").
BalanceTry(address, network, etherscan_key, solscan_key, balResp, priceResp) ==
  IF network = <<"e","t","h","e","r","e","u","m">> \/ StartsWith(network, <<"e","t","h","e","r","e","u","m","_">>) THEN
    IF etherscan_key = <<>> THEN Returned(ZeroResult(<<"E","T","H">>))
    ELSE IF balResp.kind = "timeout" THEN Raised
    ELSE IF balResp.status # 200 THEN FellThrough
    ELSE IF ~balResp.json THEN Raised
    ELSE IF balResp.js.status # <<"1">> THEN FellThrough
    ELSE IF balResp.js.amount.t = "missing" THEN Raised    \* js["result"]
    ELSE Priced(balResp.js.amount, EthDivisor, <<"E","T","H">>, priceResp)
  ELSE IF network = <<"t","r","o","n">> THEN
    IF balResp.kind = "timeout" THEN Raised
    ELSE IF balResp.status # 200 THEN FellThrough
    ELSE IF ~balResp.json THEN Raised
    ELSE Priced(IF balResp.js.amount.t = "missing" THEN Num(0) ELSE balResp.js.amount,
                TronDivisor, <<"T","R","X">>, priceResp)
  ELSE IF network = <<"s","o","l","a","n","a">> THEN
    IF solscan_key = <<>> THEN Returned(ZeroResult(<<"S","O","L">>))
    ELSE IF balResp.kind = "timeout" THEN Raised
    ELSE IF balResp.status # 200 THEN FellThrough
    ELSE IF ~balResp.json THEN Raised
    ELSE Priced(IF balResp.js.amount.t = "missing" THEN Num(0) ELSE balResp.js.amount,
                SolDivisor, <<"S","O","L">>, priceResp)
  ELSE FellThrough

\* a lookup whose exceptions are not caught
get_wallet_balance_uncaught(address, network, etherscan_key, solscan_key, balResp, priceResp) ==
  BalanceTry(address, network, etherscan_key, solscan_key, balResp, priceResp)

\* get_wallet_balance: the try body, `except Exception` and line 220.  The
\* outcome is always a return; "raise" would be an exception leaving the
\* function.
get_wallet_balance(address, network, etherscan_key, solscan_key, balResp, priceResp) ==
  LET body == BalanceTry(address, network, etherscan_key, solscan_key, balResp, priceResp)
  IN IF body.out = "return" THEN body ELSE Returned(ZeroResult(<<"?">>))

\* str.title(): a letter is upper-cased after a non-letter, lower-cased
\* after a letter
IsLetter(c) == c \in Letters
Title(s) == [i \in 1..Len(s) |->
               IF i = 1 \/ ~IsLetter(s[i - 1]) THEN UpperChar(s[i]) ELSE LowerChar(s[i])]

display_names ==
  [k \in {<<"e","t","h","e","r","e","u","m">>, <<"p","o","l","y","g","o","n">>, <<"a","r","b","i","t","r","u","m">>, <<"t","r","o","n">>, <<"s","o","l","a","n","a">>, <<"t","o","n">>, <<"b","n","b">>} |->
     CASE k = <<"e","t","h","e","r","e","u","m">> -> <<"E","t","h","e","r","e","u","m">>
       [] k = <<"p","o","l","y","g","o","n">> -> <<"P","o","l","y","g","o","n">>
       [] k = <<"a","r","b","i","t","r","u","m">> -> <<"A","r","b","i","t","r","u","m">>
       [] k = <<"t","r","o","n">> -> <<"T","R","O","N">>
       [] k = <<"s","o","l","a","n","a">> -> <<"S","o","l","a","n","a">>
       [] k = <<"t","o","n">> -> <<"T","O","N">>
       [] k = <<"b","n","b">> -> <<"B","N","B"," ","C","h","a","i","n">>]

get_network_display(network) ==
  IF network \in DOMAIN display_names THEN display_names[network] ELSE Title(network)

\* ------------------------------------------------------------------------
\* The listing keyboard (lines 396-429, repeated at lines 567-597)
\* ------------------------------------------------------------------------
\* the characters of the model in code-point order; sorted() compares strings by
\* code point
CodePointOrder ==
  <<
    "\t", "\n", " ", "-", ".", "/", "0", "1", "2", "3", "4", "5", "6", "7", "8", "9",
    "?", "A", "B", "C", "D", "E", "F", "G", "H", "I", "J", "K", "L", "M", "N", "O",
    "P", "Q", "R", "S", "T", "U", "V", "W", "X", "Y", "Z", "_", "a", "b", "c", "d",
    "e", "f", "g", "h", "i", "j", "k", "l", "m", "n", "o", "p", "q", "r", "s", "t",
    "u", "v", "w", "x", "y", "z"
  >>

OrdTable == [c \in Chars |-> CHOOSE i \in 1..Len(CodePointOrder) : CodePointOrder[i] = c]
Ord(c) == OrdTable[c]

\* a < b for strings
StrLess(a, b) ==
  \E i \in 1..(Len(a) + 1) :
    /\ \A j \in 1..(i - 1) : j <= Len(b) /\ a[j] = b[j]
    /\ i <= Len(b)
    /\ (i = Len(a) + 1 \/ Ord(a[i]) < Ord(b[i]))

\* sorted(keys): the keys of a dict are distinct
RECURSIVE SortedKeys(_)
SortedKeys(keys) ==
  IF keys = {} THEN <<>>
  ELSE LET least == CHOOSE x \in keys : \A y \in keys \ {x} : StrLess(x, y)
       IN <<least>> \o SortedKeys(keys \ {least})

\* every key sorted alike, "_ungrouped" not moved to the end
sorted_groups_plain(groups) == SortedKeys(DOMAIN groups)

\* lines 400-406: the named groups sorted by key, "_ungrouped" appended
sorted_groups(groups) ==
  SortedKeys((DOMAIN groups) \ {UNGROUPED})
    \o (IF UNGROUPED \in DOMAIN groups THEN <<UNGROUPED>> ELSE <<>>)

CallbackPrefix == <<"w","g","r","o","u","p","_">>

\* lines 408-421: one button per group.  The text f"{display_name} ({count})"
\* is kept as its parts: the icon that starts display_name, the name after
\* it, and the count.
GroupButton(groups, group_name) ==
  [icon |-> IF group_name = UNGROUPED THEN "other" ELSE "named",
   name |-> IF group_name = UNGROUPED THEN <<"O","t","h","e","r"," ","W","a","l","l","e","t","s">> ELSE group_name,
   count |-> Len(groups[group_name]),
   callback_data |-> CallbackPrefix \o group_name]

\* lines 424-429
AllButton == [icon |-> "all", name |-> <<"V","i","e","w"," ","A","l","l"," ","W","a","l","l","e","t","s">>, count |-> 0,
              callback_data |-> <<"w","g","r","o","u","p","_","a","l","l">>]

ListingKeyboard(groups) ==
  LET order == sorted_groups(groups)
  IN [i \in 1..Len(order) |-> GroupButton(groups, order[i])] \o <<AllButton>>

\* lines 543-546
DetailsKeyboard(group_name) ==
  << [icon |-> "back", name |-> <<"B","a","c","k"," ","t","o"," ","G","r","o","u","p","s">>, count |-> 0,
      callback_data |-> <<"w","g","r","o","u","p","_","b","a","c","k">>],
     [icon |-> "refresh", name |-> <<"R","e","f","r","e","s","h">>, count |-> 0,
      callback_data |-> CallbackPrefix \o group_name] >>

\* ------------------------------------------------------------------------
\* The router
\* ------------------------------------------------------------------------
\* str.replace(old, new), every occurrence, left to right
RECURSIVE Replace(_, _, _)
Replace(s, old, new) ==
  IF s = <<>> THEN <<>>
  ELSE IF StartsWith(s, old) THEN new \o Replace(Drop(s, Len(old)), old, new)
  ELSE <<s[1]>> \o Replace(Drop(s, 1), old, new)

\* handlers in the order the decorators register them: lines 368, 444, 556
\* at import, then the wrappers of setup_wallet_groups (lines 632, 636, 640)
Router ==
  << [event |-> "message", op |-> "command", arg |-> <<"w","a","l","l","e","t">>,
      handler |-> "cmd_wallet_groups", runs |-> "cmd_wallet_groups"],
     [event |-> "callback_query", op |-> "startswith", arg |-> <<"w","g","r","o","u","p","_">>,
      handler |-> "cb_wallet_group_details", runs |-> "cb_wallet_group_details"],
     [event |-> "callback_query", op |-> "eq", arg |-> <<"w","g","r","o","u","p","_","b","a","c","k">>,
      handler |-> "cb_back_to_groups", runs |-> "cb_back_to_groups"],
     [event |-> "message", op |-> "command", arg |-> <<"w","a","l","l","e","t">>,
      handler |-> "cmd_wallet_wrapper", runs |-> "cmd_wallet_groups"],
     [event |-> "callback_query", op |-> "startswith", arg |-> <<"w","g","r","o","u","p","_">>,
      handler |-> "cb_wallet_group_wrapper", runs |-> "cb_wallet_group_details"],
     [event |-> "callback_query", op |-> "eq", arg |-> <<"w","g","r","o","u","p","_","b","a","c","k">>,
      handler |-> "cb_back_wrapper", runs |-> "cb_back_to_groups"] >>

\* the filter of one registration: Command(arg), F.data.startswith(arg),
\* F.data == arg
FilterPasses(reg, event, text) ==
  /\ reg.event = event
  /\ CASE reg.op = "command" -> text = <<"/">> \o reg.arg
                                  \/ StartsWith(text, <<"/">> \o reg.arg \o <<" ">>)
       [] reg.op = "startswith" -> StartsWith(text, reg.arg)
       [] reg.op = "eq" -> text = reg.arg

NoHandler == [event |-> "none", op |-> "none", arg |-> <<>>,
              handler |-> "unhandled", runs |-> "unhandled"]

\* the router tries its handlers in registration order and runs the first
\* one whose filter passes
Dispatch(event, text) ==
  LET hits == {i \in 1..Len(Router) : FilterPasses(Router[i], event, text)}
  IN IF hits = {} THEN NoHandler
     ELSE Router[CHOOSE i \in hits : \A j \in hits : i <= j]

\* ------------------------------------------------------------------------
\* State
\* ------------------------------------------------------------------------
VARIABLES
  db,               \* the wallets table rows of the user, in SELECT order
  etherscan_key,    \* configuration passed to the handlers
  solscan_key,
  pc,               \* where the running handler is: idle, loop, image, text
  status,           \* how the last handler ended: answered, alerted, raised
  pressed,          \* the button whose callback is being handled
  data,             \* c.data
  handler,          \* the registration the router ran
  wallets,          \* handler local of cb_wallet_group_details: the rows fetched
  group_name,       \* handler locals of cb_wallet_group_details
  display_name,
  selected_wallets,
  idx,              \* position of the for loop of line 483
  total_usd,
  holdings_list,
  wallet_details,
  faults,           \* what the upstream did to each lookup of this batch
  image,            \* how image generation and sending went
  photo,            \* the last photo message in the chat
  screen,           \* the bot's text message in the chat and its keyboard
  alert,            \* the last callback alert shown
  cl_label,         \* classifier specification: the label
  cl_result,        \*   and what extract_wallet_group returned for it
  gr_wallets,       \* grouping specification: the records
  gr_groups,        \*   and the map group_wallets_by_name returned
  lk_args,          \* lookup specification: the call and the HTTP exchanges
  lk_balance        \*   and what get_wallet_balance returned

botVars == <<db, etherscan_key, solscan_key, pc, status, pressed, data, handler,
             wallets, group_name, display_name, selected_wallets, idx, total_usd,
             holdings_list, wallet_details, faults, image, photo, screen, alert>>
clVars == <<cl_label, cl_result>>
grVars == <<gr_wallets, gr_groups>>
lkVars == <<lk_args, lk_balance>>
vars == <<botVars, clVars, grVars, lkVars>>

Pending == <<"Pending">>      \* a function that has not been applied yet

Range(seq) == {seq[i] : i \in 1..Len(seq)}

\* ------------------------------------------------------------------------
\* The environment of the handlers
\* ------------------------------------------------------------------------
ApiKey == <<"K","E","Y">>
UnitsHeld == 1        \* whole coins every address holds upstream
UnitPrice == 3        \* USD price of every coin upstream

BotLabels == {<<"T","r","u","s","t"," ","W","a","l","l","e","t"," ","B","N","B">>, <<"a","l","l"," ","W","a","l","l","e","t">>, <<"r","a","n","d","o","m","l","a","b","e","l">>}
BotNetworks == {<<"e","t","h","e","r","e","u","m">>, <<"b","i","t","c","o","i","n">>, <<"t","r","o","n">>}
BotFaults == {"none", "balance_timeout", "price_timeout"}

\* the native symbol and the divisor of the branch that serves a network
IsEvm(network) == network = <<"e","t","h","e","r","e","u","m">> \/ StartsWith(network, <<"e","t","h","e","r","e","u","m","_">>)
Supported(network) == IsEvm(network) \/ network = <<"t","r","o","n">> \/ network = <<"s","o","l","a","n","a">>
NativeSymbol(network) ==
  IF IsEvm(network) THEN <<"E","T","H">> ELSE IF network = <<"t","r","o","n">> THEN <<"T","R","X">> ELSE <<"S","O","L">>
Divisor(network) ==
  IF IsEvm(network) THEN EthDivisor ELSE IF network = <<"t","r","o","n">> THEN TronDivisor ELSE SolDivisor
HasCredential(network, ekey, skey) ==
  /\ (IsEvm(network) => ekey # <<>>)
  /\ (network = <<"s","o","l","a","n","a">> => skey # <<>>)

\* what the balance API answers for an address holding `units` coins
TimedOut == [kind |-> "timeout", status |-> 0, json |-> FALSE,
             js |-> [status |-> <<"0">>, amount |-> Missing]]
BalanceOk(network, units) ==
  [kind |-> "response", status |-> 200, json |-> TRUE,
   js |-> [status |-> <<"1">>, amount |-> Num(units * Divisor(network))]]
PriceTimedOut == [kind |-> "timeout", status |-> 0, json |-> FALSE,
                  coin |-> <<>>, usd |-> Missing]
PriceAnswer(network, usd) ==
  [kind |-> "response", status |-> 200, json |-> TRUE,
   coin |-> coin_ids[NativeSymbol(network)], usd |-> usd]

BalanceExchange(network, fault) ==
  IF fault = "balance_timeout" THEN TimedOut ELSE BalanceOk(network, UnitsHeld)
PriceExchange(network, fault) ==
  IF fault = "price_timeout" THEN PriceTimedOut
  ELSE IF fault = "price_null" THEN PriceAnswer(network, BadValue)
  ELSE PriceAnswer(network, Num(UnitPrice))

\* a fault can only hit a request that is made
FaultsFor(wallet) ==
  IF Supported(wallet.network) /\ HasCredential(wallet.network, etherscan_key, solscan_key)
  THEN BotFaults ELSE {"none"}

NoButton == [icon |-> "none", name |-> <<>>, count |-> 0, callback_data |-> <<>>]
NoPhoto == [name |-> <<>>, total |-> 0, networks |-> 0]
BlankScreen == [kind |-> "none", title |-> <<>>, total |-> 0, count |-> 0, groups |-> 0,
                details |-> <<>>, keyboard |-> <<>>]

\* all_networks, the dict the caller of setup_wallet_groups passes in; it is
\* not defined in this file and is taken to be empty
all_networks == EmptyDict

\* line 495
NetworkDisplay(network) ==
  IF network \in DOMAIN all_networks THEN all_networks[network]
  ELSE get_network_display(network)

\* ------------------------------------------------------------------------
\* Handlers
\* ------------------------------------------------------------------------
\* the text and keyboard both listing handlers build (lines 431-442, 599-610)
ListingScreen(rows) ==
  LET groups == group_wallets_by_name(rows)
  IN [kind |-> "listing", title |-> <<"Y","o","u","r"," ","W","a","l","l","e","t"," ","G","r","o","u","p","s">>, total |-> 0,
      count |-> Len(rows), groups |-> Cardinality(DOMAIN groups),
      details |-> <<>>, keyboard |-> ListingKeyboard(groups)]

\* the handler returned: its locals are gone
LocalsDropped ==
  /\ wallets' = <<>>
  /\ group_name' = <<>>
  /\ display_name' = <<>>
  /\ selected_wallets' = <<>>
  /\ idx' = 0
  /\ total_usd' = 0
  /\ holdings_list' = <<>>
  /\ wallet_details' = <<>>
  /\ faults' = <<>>

\* a message arrives and the router runs cmd_wallet_groups (lines 368-442)
Message(text) ==
  /\ pc = "idle"
  /\ LET reg == Dispatch("message", text)
     IN /\ reg.runs = "cmd_wallet_groups"
        /\ handler' = reg.handler
        /\ screen' = IF db = <<>>
                     THEN [BlankScreen EXCEPT !.kind = "no_wallets",
                                              !.title = <<"N","o"," ","w","a","l","l","e","t","s"," ","a","d","d","e","d"," ","y","e","t",".">>]
                     ELSE ListingScreen(db)
        /\ status' = "answered"
  /\ pressed' = NoButton
  /\ data' = <<>>
  /\ image' = "none"
  /\ photo' = NoPhoto
  /\ alert' = "none"
  /\ LocalsDropped
  /\ UNCHANGED <<db, etherscan_key, solscan_key, pc>>
  /\ UNCHANGED <<clVars, grVars, lkVars>>

\* line 452
GroupNameOf(callback_data) == Replace(callback_data, CallbackPrefix, <<>>)

\* lines 460-466: the wallets a group name selects
SelectedWallets(rows, name) ==
  LET groups == group_wallets_by_name(rows)
  IN IF name = <<"a","l","l">> THEN rows
     ELSE IF name \in DOMAIN groups THEN groups[name] ELSE <<>>

\* lines 462 and 466
DisplayName(name) ==
  IF name = <<"a","l","l">> THEN <<"A","l","l"," ","W","a","l","l","e","t","s">>
  ELSE IF name # UNGROUPED THEN name ELSE <<"O","t","h","e","r"," ","W","a","l","l","e","t","s">>

\* lines 452-481 of cb_wallet_group_details: up to the start of the loop
DetailsStart(button) ==
  \E selected \in {SelectedWallets(db, GroupNameOf(button.callback_data))} :
    IF selected = <<>>
    THEN /\ alert' = "No wallets in this group"
         /\ status' = "alerted"
         /\ LocalsDropped
         /\ UNCHANGED <<pc, screen>>
    ELSE /\ group_name' = GroupNameOf(button.callback_data)
         /\ wallets' = db
         /\ selected_wallets' = selected
         /\ display_name' = DisplayName(GroupNameOf(button.callback_data))
         /\ screen' = [BlankScreen EXCEPT
                         !.kind = "loading",
                         !.title = DisplayName(GroupNameOf(button.callback_data)),
                         !.count = Len(selected)]
         /\ pc' = "loop"
         /\ status' = "running"
         /\ idx' = 1
         /\ total_usd' = 0
         /\ holdings_list' = <<>>
         /\ wallet_details' = <<>>
         /\ faults' = <<>>
         /\ alert' = "none"

\* cb_back_to_groups, lines 556-612
BackToGroups ==
  /\ screen' = ListingScreen(db)
  /\ status' = "answered"
  /\ alert' = "none"
  /\ LocalsDropped
  /\ UNCHANGED pc

\* the user presses a button of the keyboard on screen; the router picks the
\* handler and the handler runs up to its first long wait
CallbackQuery(button) ==
  /\ pc = "idle"
  /\ button \in Range(screen.keyboard)
  /\ pressed' = button
  /\ data' = button.callback_data
  /\ image' = "none"
  /\ photo' = NoPhoto
  /\ \E reg \in {Dispatch("callback_query", button.callback_data)} :
        /\ handler' = reg.handler
        /\ CASE reg.runs = "cb_wallet_group_details" -> DetailsStart(button)
             [] reg.runs = "cb_back_to_groups" -> BackToGroups
             [] OTHER -> /\ status' = "unhandled"
                         /\ LocalsDropped
                         /\ UNCHANGED <<pc, screen, alert>>
  /\ UNCHANGED <<db, etherscan_key, solscan_key>>
  /\ UNCHANGED <<clVars, grVars, lkVars>>

\* a total that keeps only the last value
AccumulateLast(total, usd_value) == usd_value

\* line 493
Accumulate(total, usd_value) == total + usd_value

\* the body of the loop of lines 483-511 for the wallet at idx, once the
\* lookup has ended with `fault`.  An exception that leaves
\* get_wallet_balance leaves the handler too.
Iterate(fault) ==
  /\ idx <= Len(selected_wallets)
  /\ fault \in FaultsFor(selected_wallets[idx])
  /\ \E wallet \in {selected_wallets[idx]} :
     \E balance \in {get_wallet_balance(wallet.address, wallet.network,
                                        etherscan_key, solscan_key,
                                        BalanceExchange(wallet.network, fault),
                                        PriceExchange(wallet.network, fault))} :
     \E network_display \in {NetworkDisplay(wallet.network)} :
       IF balance.out = "raise"
       THEN /\ pc' = "idle"
            /\ status' = "raised"
            /\ UNCHANGED <<idx, total_usd, holdings_list, wallet_details, faults>>
       ELSE /\ total_usd' = Accumulate(total_usd, balance.value.usd_value)
            /\ holdings_list' = Append(holdings_list,
                 [network |-> network_display,
                  amount |-> balance.value.native_amount,
                  symbol |-> balance.value.token_symbol,
                  usd |-> balance.value.usd_value])
            /\ wallet_details' = Append(wallet_details,
                 [label |-> wallet.label, network |-> network_display,
                  address |-> wallet.address,
                  amount |-> balance.value.native_amount,
                  symbol |-> balance.value.token_symbol,
                  usd |-> balance.value.usd_value])
            /\ faults' = Append(faults, fault)
            /\ idx' = idx + 1
            /\ pc' = IF idx = Len(selected_wallets) THEN "image" ELSE "loop"
            /\ UNCHANGED status
  /\ UNCHANGED <<db, etherscan_key, solscan_key, pressed, data, handler, wallets,
                 group_name, display_name, selected_wallets, image, photo, screen, alert>>
  /\ UNCHANGED <<clVars, grVars, lkVars>>

\* one iteration of the loop of lines 483-511, lookup included
LookupStep(fault) ==
  /\ pc = "loop"
  /\ Iterate(fault)

\* an image step whose exception is not caught
AfterImageUncaught(outcome) == IF outcome = "sent" THEN "text" ELSE "raised"

\* lines 514-525: try / except Exception around generating and sending the
\* image; the handler goes on to the text report either way
AfterImage(outcome) == "text"

\* lines 513-525: outcome "sent", or an exception in generate_wallet_image or
\* in answer_photo
GenerateImage(outcome) ==
  /\ pc = "image"
  /\ image' = outcome
  /\ photo' = IF outcome = "sent"
              THEN [name |-> display_name, total |-> total_usd,
                    networks |-> Len(holdings_list)]
              ELSE photo
  /\ IF AfterImage(outcome) = "raised"
     THEN pc' = "idle" /\ status' = "raised"
     ELSE pc' = AfterImage(outcome) /\ UNCHANGED status
  /\ UNCHANGED <<db, etherscan_key, solscan_key, pressed, data, handler, wallets,
                 group_name, display_name, selected_wallets, idx, total_usd,
                 holdings_list, wallet_details, faults, screen, alert>>
  /\ UNCHANGED <<clVars, grVars, lkVars>>

\* lines 527-554: the text report replaces the loading message and the
\* handler returns
SendText ==
  /\ pc = "text"
  /\ screen' = [kind |-> "details", title |-> display_name, total |-> total_usd,
                count |-> Len(holdings_list), groups |-> 0,
                details |-> wallet_details, keyboard |-> DetailsKeyboard(group_name)]
  /\ pc' = "idle"
  /\ status' = "answered"
  /\ LocalsDropped
  /\ UNCHANGED <<db, etherscan_key, solscan_key, pressed, data, handler,
                 image, photo, alert>>
  /\ UNCHANGED <<clVars, grVars, lkVars>>

NotReturned(v) == [returned |-> FALSE, value |-> v]
HasReturned(v) == [returned |-> TRUE, value |-> v]

ClassifierIdle == cl_label = <<>> /\ cl_result = Pending
GroupingIdle == gr_wallets = <<>> /\ gr_groups = NotReturned(EmptyDict)
LookupIdle == lk_args = <<>> /\ lk_balance = NotReturned(Raised)

\* the rows a SELECT can return: ids count up, every row has its own address
IdDigit == <<"1", "2", "3", "4", "5", "6", "7", "8", "9">>
Row(i, label, network) ==
  [id |-> i, network |-> network, address |-> <<"0", "x", IdDigit[i]>>, label |-> label]
Tables(labels, networks, n) ==
  UNION { { [i \in 1..k |-> Row(i, f[i][1], f[i][2])] : f \in [1..k -> labels \X networks] }
          : k \in 0..n }

BotIdle ==
  /\ pc = "idle" /\ status = "none"
  /\ pressed = NoButton /\ data = <<>> /\ handler = "none"
  /\ wallets = <<>> /\ group_name = <<>> /\ display_name = <<>>
  /\ selected_wallets = <<>> /\ idx = 0 /\ total_usd = 0
  /\ holdings_list = <<>> /\ wallet_details = <<>> /\ faults = <<>>
  /\ image = "none" /\ photo = NoPhoto /\ screen = BlankScreen /\ alert = "none"

Init ==
  /\ db \in Tables(BotLabels, BotNetworks, MaxWallets)
  /\ etherscan_key \in {<<>>, ApiKey}
  /\ solscan_key = ApiKey
  /\ BotIdle
  /\ ClassifierIdle /\ GroupingIdle /\ LookupIdle

Next ==
  \/ Message(<<"/","w","a","l","l","e","t">>)
  \/ \E button \in Range(screen.keyboard) : CallbackQuery(button)
  \/ \E fault \in BotFaults : LookupStep(fault)
  \/ \E outcome \in {"sent", "generate_raises", "send_raises"} : GenerateImage(outcome)
  \/ SendText

Spec == Init /\ [][Next]_vars


\* ------------------------------------------------------------------------
\* extract_wallet_group applied to one label
\* ------------------------------------------------------------------------
Fragments ==
  {<<"L","e","d","g","e","r">>, <<"t","R","e","Z","o","R">>, <<" ","M","o","d","e","l"," ","T">>, <<"m","a","i","n">>, <<"X","y","z","z","y">>, <<" ">>, <<" ","W","a","l","l","e","t">>,
   <<" ","E","x","c","h","a","n","g","e">>, <<"m","y","-","x">>, <<"a","_","b">>, <<"\n">>, <<" ","c","o","i","n">>,
   <<"_","u","n","g","r","o","u","p","e","d">>}

\* the labels made of at most n fragments
RECURSIVE LabelsUpTo(_)
LabelsUpTo(n) ==
  IF n = 0 THEN {<<>>}
  ELSE LET shorter == LabelsUpTo(n - 1)
       IN shorter \cup {p \o f : p \in shorter, f \in Fragments}

BotUnused ==
  /\ db = <<>> /\ etherscan_key = <<>> /\ solscan_key = <<>>
  /\ BotIdle

ClassifyInit ==
  /\ cl_label \in LabelsUpTo(MaxParts)
  /\ cl_result = Pending
  /\ BotUnused /\ GroupingIdle /\ LookupIdle

Classify ==
  /\ cl_result = Pending
  /\ cl_result' = extract_wallet_group(cl_label)
  /\ UNCHANGED <<cl_label, botVars, grVars, lkVars>>

ClassifyNext == Classify

ClassifySpec == ClassifyInit /\ [][ClassifyNext]_vars

\* ------------------------------------------------------------------------
\* group_wallets_by_name applied to one list of records
\* ------------------------------------------------------------------------
GroupLabels ==
  {<<"T","r","u","s","t"," ","W","a","l","l","e","t"," ","B","N","B">>, <<"t","r","u","s","t"," ","w","a","l","l","e","t"," ","e","t","h">>, <<"X","y","z","z","y"," ","W","a","l","l","e","t">>, <<"r","a","n","d","o","m","l","a","b","e","l">>, <<>>,
   <<"_","u","n","g","r","o","u","p","e","d">>, <<"_","u","n","g","r","o","u","p","e","d"," ","W","a","l","l","e","t">>}
GroupIds == {1, 2}

Records(n) ==
  UNION { [1..k -> [id : GroupIds, label : GroupLabels]] : k \in 0..n }

GroupInit ==
  /\ gr_wallets \in Records(MaxRecords)
  /\ gr_groups = NotReturned(EmptyDict)
  /\ BotUnused /\ ClassifierIdle /\ LookupIdle

Group ==
  /\ ~gr_groups.returned
  /\ gr_groups' = HasReturned(group_wallets_by_name(gr_wallets))
  /\ UNCHANGED <<gr_wallets, botVars, clVars, lkVars>>

GroupNext == Group

GroupSpec == GroupInit /\ [][GroupNext]_vars

\* ------------------------------------------------------------------------
\* the group keys: a run of extract_wallet_group on a label, or a run of
\* group_wallets_by_name on a list of records
\* ------------------------------------------------------------------------
KeyInit == ClassifyInit \/ GroupInit

KeyNext == Classify \/ Group

KeySpec == KeyInit /\ [][KeyNext]_vars

\* ------------------------------------------------------------------------
\* get_wallet_balance applied to one wallet and one pair of HTTP exchanges
\* ------------------------------------------------------------------------
LookupNetworks == {<<"e","t","h","e","r","e","u","m">>, <<"e","t","h","e","r","e","u","m","_","s","e","p","o","l","i","a">>, <<"t","r","o","n">>, <<"s","o","l","a","n","a">>, <<"b","i","t","c","o","i","n">>}

JsonBody(api_status, amount) ==
  [kind |-> "response", status |-> 200, json |-> TRUE,
   js |-> [status |-> api_status, amount |-> amount]]

\* the balance exchanges: a timeout, a non-success status, a body that is no
\* JSON, an API-level error status, the amount field absent or of a wrong
\* type, and a good answer
BalanceExchanges(network) ==
  { TimedOut,
    [BalanceOk(network, UnitsHeld) EXCEPT !.status = 500],
    [BalanceOk(network, UnitsHeld) EXCEPT !.json = FALSE],
    JsonBody(<<"0">>, Num(UnitsHeld * Divisor(network))),
    JsonBody(<<"1">>, Missing),
    JsonBody(<<"1">>, BadValue),
    BalanceOk(network, UnitsHeld) }

\* the price exchanges: a timeout, a non-success status, a body that is no
\* JSON, a payload about another coin, the usd field absent or null, and a
\* good answer
PriceExchanges(network) ==
  { PriceTimedOut,
    [PriceAnswer(network, Num(UnitPrice)) EXCEPT !.status = 500],
    [PriceAnswer(network, Num(UnitPrice)) EXCEPT !.json = FALSE],
    [PriceAnswer(network, Num(UnitPrice)) EXCEPT !.coin = <<"b","i","t","c","o","i","n">>],
    PriceAnswer(network, Missing),
    PriceAnswer(network, BadValue),
    PriceAnswer(network, Num(UnitPrice)) }

LookupInit ==
  /\ \E network \in LookupNetworks, ekey \in {<<>>, ApiKey}, skey \in {<<>>, ApiKey} :
     \E bal \in BalanceExchanges(network), price \in PriceExchanges(network) :
       lk_args = [address |-> <<"0","x","1">>, network |-> network, etherscan_key |-> ekey,
                  solscan_key |-> skey, balance |-> bal, price |-> price]
  /\ lk_balance = NotReturned(Raised)
  /\ BotUnused /\ ClassifierIdle /\ GroupingIdle

Lookup ==
  /\ ~lk_balance.returned
  /\ lk_balance' = HasReturned(get_wallet_balance(lk_args.address, lk_args.network,
                                                  lk_args.etherscan_key, lk_args.solscan_key,
                                                  lk_args.balance, lk_args.price))
  /\ UNCHANGED <<lk_args, botVars, clVars, grVars>>

LookupNext == Lookup

LookupSpec == LookupInit /\ [][LookupNext]_vars


\* ------------------------------------------------------------------------
\* The aggregation batch with its HTTP calls in flight
\* ------------------------------------------------------------------------
\* aiohttp.ClientTimeout(total=10) of lines 166, 184, 204 and 238, in seconds
TimeoutTotal == 10

\* a request without a total never expires
ExpiresNever(total) == FALSE

\* aiohttp arms a timer for a request whose total is a positive number; when
\* it fires the awaiting coroutine gets asyncio.TimeoutError
Expires(total) == total > 0

BatchLabels == {<<"T","r","u","s","t"," ","W","a","l","l","e","t"," ","B","N","B">>, <<"r","a","n","d","o","m","l","a","b","e","l">>}

\* lines 156-166, 181-184, 197-204: get_wallet_balance is entered for the
\* wallet at idx; it returns at once when the network is not served or the
\* credential is missing, and sends the balance request otherwise
RequestBalance ==
  /\ pc = "loop"
  /\ idx <= Len(selected_wallets)
  /\ IF FaultsFor(selected_wallets[idx]) = {"none"}
     THEN Iterate("none")
     ELSE /\ pc' = "balance_wait"
          /\ UNCHANGED <<db, etherscan_key, solscan_key, status, pressed, data, handler,
                         wallets, group_name, display_name, selected_wallets, idx,
                         total_usd, holdings_list, wallet_details, faults, image,
                         photo, screen, alert>>
          /\ UNCHANGED <<clVars, grVars, lkVars>>

\* lines 167-173, 185-189, 205-209: the balance API answers and
\* get_simple_price sends the price request (line 238)
BalanceAnswers ==
  /\ pc = "balance_wait"
  /\ pc' = "price_wait"
  /\ UNCHANGED <<db, etherscan_key, solscan_key, status, pressed, data, handler,
                 wallets, group_name, display_name, selected_wallets, idx,
                 total_usd, holdings_list, wallet_details, faults, image,
                 photo, screen, alert>>
  /\ UNCHANGED <<clVars, grVars, lkVars>>

\* the balance API has not answered when the timer of the request fires:
\* asyncio.TimeoutError is caught at line 217 and line 220 returns
BalanceTimesOut ==
  /\ pc = "balance_wait"
  /\ Expires(TimeoutTotal)
  /\ Iterate("balance_timeout")

\* lines 239-241: the price API answers
PriceAnswers ==
  /\ pc = "price_wait"
  /\ Iterate("none")

\* the price API has not answered when the timer of the request fires:
\* asyncio.TimeoutError is caught at line 242 and line 245 returns 0
PriceTimesOut ==
  /\ pc = "price_wait"
  /\ Expires(TimeoutTotal)
  /\ Iterate("price_timeout")

BatchInit ==
  /\ db \in Tables(BatchLabels, BotNetworks, MaxWallets)
  /\ etherscan_key \in {<<>>, ApiKey}
  /\ solscan_key = ApiKey
  /\ BotIdle
  /\ ClassifierIdle /\ GroupingIdle /\ LookupIdle

BatchNext ==
  \/ Message(<<"/","w","a","l","l","e","t">>)
  \/ \E button \in Range(screen.keyboard) : CallbackQuery(button)
  \/ RequestBalance
  \/ BalanceAnswers
  \/ BalanceTimesOut
  \/ PriceAnswers
  \/ PriceTimesOut
  \/ \E outcome \in {"sent", "generate_raises", "send_raises"} : GenerateImage(outcome)
  \/ SendText

\* The event loop runs a coroutine that can go on and fires a timer that is
\* armed; calls to Telegram end.  Nothing makes a user act or an upstream
\* API answer.
BatchFairness ==
  /\ WF_vars(RequestBalance)
  /\ WF_vars(BalanceTimesOut)
  /\ WF_vars(PriceTimesOut)
  /\ WF_vars(\E outcome \in {"sent", "generate_raises", "send_raises"} : GenerateImage(outcome))
  /\ WF_vars(SendText)

BatchSpec == BatchInit /\ [][BatchNext]_vars /\ BatchFairness


\* ------------------------------------------------------------------------
\* Properties
\* ------------------------------------------------------------------------
Count(seq, x) == Cardinality({i \in 1..Len(seq) : seq[i] = x})

\* the positions of a map's buckets: <<key, index>>
Slots(groups) == UNION { {<<k, i>> : i \in 1..Len(groups[k])} : k \in DOMAIN groups }

\* seq restricted to the elements of a set, order kept
RECURSIVE Restrict(_, _)
Restrict(seq, set) ==
  IF seq = <<>> THEN <<>>
  ELSE (IF seq[1] \in set THEN <<seq[1]>> ELSE <<>>) \o Restrict(Drop(seq, 1), set)

\* C1: group_wallets_by_name returns a map whose buckets hold every input
\* record exactly once (as a multiset), each record in one bucket only, each
\* bucket in input order, and "_ungrouped" is a key exactly when some record's
\* label was classified as no match.
C1_GroupingPartitionsInput ==
  gr_groups.returned =>
    LET groups == gr_groups.value
    IN /\ Cardinality(Slots(groups)) = Len(gr_wallets)
       /\ \A r \in Range(gr_wallets) :
            /\ Cardinality({sl \in Slots(groups) : groups[sl[1]][sl[2]] = r})
                 = Count(gr_wallets, r)
            /\ Cardinality({k \in DOMAIN groups : r \in Range(groups[k])}) = 1
       /\ \A k \in DOMAIN groups :
            groups[k] = Restrict(gr_wallets, Range(groups[k]))
       /\ (UNGROUPED \in DOMAIN groups)
            <=> (\E i \in 1..Len(gr_wallets) :
                   extract_wallet_group(gr_wallets[i].label) = None)

\* three records: two in one named bucket, in input order, one ungrouped
C1_Witness ==
  /\ gr_groups.returned
  /\ Len(gr_wallets) = 3
  /\ UNGROUPED \in DOMAIN gr_groups.value
  /\ \E k \in DOMAIN gr_groups.value :
       k # UNGROUPED /\ gr_groups.value[k] = <<gr_wallets[1], gr_wallets[3]>>
       /\ gr_wallets[1] # gr_wallets[3]

\* a reference name occurs in the label, compared without regard to case
NameOccurs(label, name) == Contains(Lower(label), Lower(name))

AnyNameOccurs(label) ==
  \E i \in 1..Len(KNOWN_WALLET_NAMES_LITERAL) : NameOccurs(label, KNOWN_WALLET_NAMES_LITERAL[i])

\* C2: when a label contains a reference name, extract_wallet_group returns a
\* reference name in its canonical casing that occurs in the label, no
\* occurring reference name is longer, and among the occurring names of that
\* length it is the first of the list as written.
C2_LongestReferenceNameWins ==
  (cl_result # Pending /\ AnyNameOccurs(cl_label)) =>
    \E i \in 1..Len(KNOWN_WALLET_NAMES_LITERAL) :
      /\ cl_result = KNOWN_WALLET_NAMES_LITERAL[i]
      /\ NameOccurs(cl_label, cl_result)
      /\ \A j \in 1..Len(KNOWN_WALLET_NAMES_LITERAL) :
           NameOccurs(cl_label, KNOWN_WALLET_NAMES_LITERAL[j]) =>
             \/ Len(KNOWN_WALLET_NAMES_LITERAL[j]) < Len(cl_result)
             \/ (Len(KNOWN_WALLET_NAMES_LITERAL[j]) = Len(cl_result) /\ i <= j)

\* a label in which two reference names of the same length occur, the later
\* of the list first, and a longer name does not
C2_Witness ==
  /\ cl_label = <<"t","R","e","Z","o","R">> \o <<"L","e","d","g","e","r">>
  /\ cl_result = <<"L","e","d","g","e","r">>

\* the label is t, whitespace, then the word and anything: t of letters and
\* digits
TokenThenWord(label, word, t) ==
  /\ t # <<>>
  /\ StartsWith(label, t)
  /\ \A i \in 1..Len(t) : t[i] \in AlnumChars
  /\ \E m \in 1..(Len(label) - Len(t)) :
       /\ \A i \in (Len(t) + 1)..(Len(t) + m) : label[i] \in SpaceChars
       /\ StartsWith(Drop(label, Len(t) + m), word)

AllWordChars(s) == s # <<>> /\ \A i \in 1..Len(s) : s[i] \in AlnumChars \cup {"_"}

\* the label is t, whitespace, then a token of word characters with at most
\* one newline behind it: t of letters and digits
TwoTokens(label, t) ==
  /\ t # <<>>
  /\ StartsWith(label, t)
  /\ \A i \in 1..Len(t) : t[i] \in AlnumChars
  /\ \E m \in 1..(Len(label) - Len(t)) :
       /\ \A i \in (Len(t) + 1)..(Len(t) + m) : label[i] \in SpaceChars
       /\ LET rest == Drop(label, Len(t) + m)
          IN \/ AllWordChars(rest)
             \/ (rest # <<>> /\ rest[Len(rest)] = "\n"
                 /\ AllWordChars(SubSeq(rest, 1, Len(rest) - 1)))

PatternCaptures(label, t) ==
  \/ TokenThenWord(label, WalletWord, t)
  \/ TokenThenWord(label, ExchangeWord, t)
  \/ TwoTokens(label, t)

Prefixes(label) == {SubSeq(label, 1, n) : n \in 1..Len(label)}

\* C10 (amended): for a label that contains no reference name,
\* extract_wallet_group returns the label's leading run of ASCII letters and
\* digits when that run is followed by whitespace and then the text "Wallet",
\* or by whitespace and then the text "Exchange", or by whitespace and then
\* a run of word characters that ends the label (a final newline allowed);
\* otherwise, the empty label included, it returns no match.
C10_PatternsOnAlphanumericToken ==
  (cl_result # Pending /\ ~AnyNameOccurs(cl_label)) =>
    /\ \A t \in Prefixes(cl_label) : PatternCaptures(cl_label, t) => cl_result = t
    /\ (~\E t \in Prefixes(cl_label) : PatternCaptures(cl_label, t)) => cl_result = None

\* a label the first pattern captures although more text follows "Wallet"
C10_Witness ==
  /\ cl_label = <<"X","y","z","z","y"," ","W","a","l","l","e","t"," ","c","o","i","n">>
  /\ cl_result = <<"X","y","z","z","y">>

\* str.split(): the whitespace-separated tokens of a label
RECURSIVE Tokens(_)
Tokens(s) ==
  IF s = <<>> THEN <<>>
  ELSE IF s[1] \in SpaceChars THEN Tokens(Drop(s, 1))
  ELSE LET n == CHOOSE k \in 1..Len(s) :
                  /\ \A i \in 1..k : s[i] \notin SpaceChars
                  /\ (k < Len(s) => s[k + 1] \in SpaceChars)
       IN <<SubSeq(s, 1, n)>> \o Tokens(Drop(s, n))

\* the three patterns as the claim words them, on whitespace-separated tokens
PatternAsClaimed(label) ==
  LET tokens == Tokens(label)
      anchored == Len(tokens) >= 1 /\ StartsWith(label, tokens[1])
  IN IF anchored /\ Len(tokens) >= 2 /\ tokens[2] = WalletWord THEN tokens[1]
     ELSE IF anchored /\ Len(tokens) >= 2 /\ tokens[2] = ExchangeWord THEN tokens[1]
     ELSE IF anchored /\ Len(tokens) = 2 THEN tokens[1]
     ELSE None

\* C10 as stated: a leading token followed by the word "Wallet", a leading
\* token followed by the word "Exchange", or exactly two tokens, return the
\* leading token whatever its characters.
C10_AsClaimed ==
  (cl_result # Pending /\ ~AnyNameOccurs(cl_label)) =>
    cl_result = PatternAsClaimed(cl_label)


\* ------------------------------------------------------------------------
\* the kinds of lookup failure of one call of get_wallet_balance
\* ------------------------------------------------------------------------
Unsupported == ~Supported(lk_args.network)
NoCredential ==
  /\ Supported(lk_args.network)
  /\ ~HasCredential(lk_args.network, lk_args.etherscan_key, lk_args.solscan_key)
Requested ==
  /\ Supported(lk_args.network)
  /\ HasCredential(lk_args.network, lk_args.etherscan_key, lk_args.solscan_key)
BalanceAnswered ==
  Requested /\ lk_args.balance.kind = "response" /\ lk_args.balance.status = 200
BalanceTimeout == Requested /\ lk_args.balance.kind = "timeout"
BalanceNonSuccess ==
  Requested /\ lk_args.balance.kind = "response" /\ lk_args.balance.status # 200
\* a body that is no JSON, an amount that is no number, and for the EVM
\* branch an error status or an absent result
BalanceUnusable ==
  /\ BalanceAnswered
  /\ \/ ~lk_args.balance.json
     \/ lk_args.balance.js.amount.t = "bad"
     \/ (IsEvm(lk_args.network) /\ (lk_args.balance.js.status # <<"1">>
                                    \/ lk_args.balance.js.amount.t = "missing"))
\* TRON and Solana payloads without the amount field
BalanceFieldAbsent ==
  /\ BalanceAnswered /\ lk_args.balance.json /\ ~IsEvm(lk_args.network)
  /\ lk_args.balance.js.amount.t = "missing"
BalanceMalformed == BalanceUnusable \/ BalanceFieldAbsent
PriceRequested ==
  Requested /\ ~BalanceTimeout /\ ~BalanceNonSuccess /\ ~BalanceUnusable
\* no price obtained: timeout, non-success, no JSON, no entry for the coin
PriceUnavailable ==
  /\ PriceRequested
  /\ \/ lk_args.price.kind = "timeout"
     \/ lk_args.price.status # 200
     \/ ~lk_args.price.json
     \/ lk_args.price.coin # coin_ids[NativeSymbol(lk_args.network)]
     \/ lk_args.price.usd.t = "missing"
\* a price entry that is no number
PriceNotNumeric ==
  PriceRequested /\ ~PriceUnavailable /\ lk_args.price.usd.t = "bad"
LookupFailure ==
  \/ Unsupported \/ NoCredential
  \/ BalanceTimeout \/ BalanceNonSuccess \/ BalanceMalformed
  \/ PriceUnavailable \/ PriceNotNumeric

\* C4 as stated: every kind of lookup failure, in the balance lookup or in the
\* price lookup, yields exactly native_amount = 0, usd_value = 0 and
\* token_symbol = "?".
C4_AsClaimed ==
  (lk_balance.returned /\ LookupFailure) =>
    lk_balance.value.value = ZeroResult(<<"?">>)

\* C4 (amended): every kind of lookup failure makes get_wallet_balance return
\* normally with usd_value = 0.  The result is exactly (0, 0, "?") for an
\* unsupported network, a balance request that times out or answers
\* non-success, a balance payload that cannot be used, and a price that is no
\* number.  A missing API credential gives (0, 0, native symbol).  A price
\* that cannot be obtained gives the fetched native amount with usd_value 0
\* and the native symbol; a TRON or Solana payload without the amount field
\* gives amount 0 with the native symbol.
C4_FailureResults ==
  (lk_balance.returned /\ LookupFailure) =>
    LET r == lk_balance.value
        native == NativeSymbol(lk_args.network)
    IN /\ r.out = "return"
       /\ r.value.usd_value = 0
       /\ (Unsupported \/ BalanceTimeout \/ BalanceNonSuccess \/ BalanceUnusable
             \/ PriceNotNumeric)
            => r.value = ZeroResult(<<"?">>)
       /\ NoCredential => r.value = ZeroResult(native)
       /\ BalanceFieldAbsent /\ ~PriceNotNumeric => r.value = ZeroResult(native)
       /\ (PriceUnavailable /\ ~BalanceFieldAbsent)
            => r.value = [native_amount |-> UnitsHeld, usd_value |-> 0,
                          token_symbol |-> native]

\* the price request timed out after a good balance answer
C4_Witness ==
  /\ lk_balance.returned
  /\ lk_args.network = <<"t","r","o","n">>
  /\ lk_args.balance = BalanceOk(lk_args.network, UnitsHeld)
  /\ lk_args.price = PriceTimedOut
  /\ lk_balance.value.value.native_amount = UnitsHeld
  /\ lk_balance.value.value.token_symbol = <<"T","R","X">>

\* ------------------------------------------------------------------------
\* the aggregation loop
\* ------------------------------------------------------------------------
InBatch == pc \in {"loop", "image", "text"}
AfterLoop == pc \in {"image", "text"}

\* the lookup of the i-th selected wallet failed
LookupFailed(i) ==
  \/ faults[i] # "none"
  \/ ~Supported(selected_wallets[i].network)
  \/ ~HasCredential(selected_wallets[i].network, etherscan_key, solscan_key)

\* the holding of a wallet whose lookups both succeed
GoodHolding(wallet) ==
  [network |-> NetworkDisplay(wallet.network), amount |-> UnitsHeld,
   symbol |-> NativeSymbol(wallet.network), usd |-> UnitsHeld * UnitPrice]

\* C3: no lookup failure ends the handler; while the loop runs there is one
\* holding per wallet processed, once it is over one holding per selected
\* wallet, the i-th for the i-th wallet, and a wallet whose lookups did not
\* fail has the holding it has when nothing fails.
C3_FailureNeverAbortsBatch ==
  /\ status # "raised"
  /\ InBatch =>
       /\ Len(holdings_list) = Len(faults)
       /\ pc = "loop" => Len(holdings_list) = idx - 1 /\ idx <= Len(selected_wallets)
       /\ AfterLoop => Len(holdings_list) = Len(selected_wallets)
       /\ \A i \in 1..Len(holdings_list) :
            /\ holdings_list[i].network = NetworkDisplay(selected_wallets[i].network)
            /\ ~LookupFailed(i) => holdings_list[i] = GoodHolding(selected_wallets[i])

\* the first wallet's balance request timed out, the second wallet is valued
C3_Witness ==
  /\ AfterLoop
  /\ faults = <<"balance_timeout", "none">>
  /\ holdings_list[1].symbol = <<"?">>
  /\ holdings_list[2] = GoodHolding(selected_wallets[2])

RECURSIVE SumUsd(_)
SumUsd(seq) == IF seq = <<>> THEN 0 ELSE seq[1].usd + SumUsd(Drop(seq, 1))

\* C5: in the loop and after it total_usd is the sum of the usd values of the
\* holdings produced; after the loop holdings_list and wallet_details have
\* one entry per selected wallet, the i-th entry for the i-th wallet.
C5_TotalIsSumAndOrderKept ==
  InBatch =>
    /\ total_usd = SumUsd(holdings_list)
    /\ AfterLoop =>
         /\ Len(holdings_list) = Len(selected_wallets)
         /\ Len(wallet_details) = Len(selected_wallets)
         /\ \A i \in 1..Len(selected_wallets) :
              /\ wallet_details[i].label = selected_wallets[i].label
              /\ wallet_details[i].address = selected_wallets[i].address
              /\ wallet_details[i].network = holdings_list[i].network
              /\ wallet_details[i].amount = holdings_list[i].amount
              /\ wallet_details[i].symbol = holdings_list[i].symbol
              /\ wallet_details[i].usd = holdings_list[i].usd
              /\ holdings_list[i].network = NetworkDisplay(selected_wallets[i].network)

\* two wallets, both valued: the total is the sum of two non-zero values
C5_Witness ==
  /\ pc = "text"
  /\ Len(selected_wallets) = 2
  /\ holdings_list[1].usd = UnitsHeld * UnitPrice
  /\ holdings_list[2].usd = UnitsHeld * UnitPrice
  /\ total_usd = 2 * UnitsHeld * UnitPrice

\* ------------------------------------------------------------------------
\* the handlers
\* ------------------------------------------------------------------------
\* C6: after the "back" button of a detail view is pressed, the handler the
\* router ran is the one that shows the groups list, and the list is on
\* screen.
C6_BackShowsGroupsList ==
  pressed.icon = "back" =>
    /\ data = <<"w","g","r","o","u","p","_","b","a","c","k">>
    /\ handler \in {"cb_back_to_groups", "cb_back_wrapper"}
    /\ screen.kind = "listing"

\* the key of the bucket a listing entry stands for
EntryKey(button) == IF button.icon = "other" THEN UNGROUPED ELSE button.name

\* C7: when an entry of a group is selected in the listing, the wallets
\* aggregated are those of that group's bucket in the grouping of the user's
\* wallets.
C7_EntrySelectsItsGroup ==
  (pc = "loop" /\ pressed.icon \in {"named", "other"}) =>
    /\ EntryKey(pressed) \in DOMAIN group_wallets_by_name(db)
    /\ selected_wallets = group_wallets_by_name(db)[EntryKey(pressed)]

ImageFailed(outcome) == outcome \in {"generate_raises", "send_raises"}

\* C8: when generating or sending the image raises, the handler goes on to
\* the text step with its total and details untouched, and the text step
\* delivers the report with that total and those details.
C8_ImageFailureKeepsTextReport ==
  [][ /\ (pc = "image" /\ ImageFailed(image'))
        => (pc' = "text" /\ total_usd' = total_usd
            /\ wallet_details' = wallet_details /\ holdings_list' = holdings_list)
      /\ (pc = "text" /\ ImageFailed(image))
        => /\ pc' = "idle" /\ status' = "answered"
           /\ screen'.kind = "details"
           /\ screen'.title = display_name
           /\ screen'.total = total_usd
           /\ screen'.count = Len(holdings_list)
           /\ screen'.details = wallet_details ]_vars

\* the report of a two-wallet group is on screen after the image failed
C8_Witness ==
  /\ pc = "idle"
  /\ image = "generate_raises"
  /\ status = "answered"
  /\ screen.kind = "details"
  /\ Len(screen.details) = 2
  /\ photo = NoPhoto

\* C9: the listing has one entry per group, carrying the group's member
\* count, the entry of the ungrouped bucket comes after every named group's
\* entry, and the "all wallets" entry is there.
C9_ListingEntries ==
  screen.kind = "listing" =>
    LET groups == group_wallets_by_name(db)
        keyboard == screen.keyboard
        entries == {i \in 1..Len(keyboard) : keyboard[i].icon \in {"named", "other"}}
    IN /\ Cardinality(entries) = Cardinality(DOMAIN groups)
       /\ \A g \in DOMAIN groups :
            \E i \in entries :
              /\ EntryKey(keyboard[i]) = g
              /\ keyboard[i].count = Len(groups[g])
              /\ keyboard[i].callback_data = CallbackPrefix \o g
              /\ \A j \in entries : EntryKey(keyboard[j]) = g => j = i
       /\ \A i, j \in entries :
            (keyboard[i].icon = "other" /\ keyboard[j].icon = "named") => j < i
       /\ \E i \in 1..Len(keyboard) : keyboard[i] = AllButton

\* a listing with a named group whose key sorts behind "_ungrouped", the
\* ungrouped entry and the "all wallets" entry
C9_Witness ==
  /\ screen.kind = "listing"
  /\ handler = "cmd_wallet_groups"
  /\ Len(screen.keyboard) = 3
  /\ screen.keyboard[1].icon = "named"
  /\ screen.keyboard[1].name = <<"a","l","l">>
  /\ screen.keyboard[2].icon = "other"
  /\ screen.keyboard[3].icon = "all"

\* the loop is at a wallet: about to look it up, or waiting for an API
AtWallet == pc \in {"loop", "balance_wait", "price_wait"}
CallInFlight == pc \in {"balance_wait", "price_wait"}

\* the loop has ended with one holding per selected wallet
AllProcessed ==
  /\ pc \in {"image", "text"}
  /\ Len(holdings_list) = Len(selected_wallets)
  /\ Len(wallet_details) = Len(selected_wallets)

\* the text report of the pressed entry is on screen and the handler returned
Delivered ==
  /\ pc = "idle" /\ status = "answered"
  /\ screen.kind = "details"
  /\ screen.count = Len(SelectedWallets(db, GroupNameOf(data)))
  /\ Len(screen.details) = screen.count

\* C11: a hung balance or price call cannot block a batch: a call in flight
\* for the k-th wallet ends, by its answer or by its timeout, with the k-th
\* holding appended; a wallet whose call timed out has a holding worth 0;
\* from any wallet the loop gets to its end with every selected wallet
\* processed, and the text report is delivered.
C11_HungCallCannotBlockBatch ==
  /\ \A k \in 1..MaxWallets :
        (CallInFlight /\ idx = k) ~> (~CallInFlight /\ idx = k + 1 /\ Len(holdings_list) = k)
  /\ [](\A i \in 1..Len(faults) :
          faults[i] \in {"balance_timeout", "price_timeout"} => holdings_list[i].usd = 0)
  /\ (AtWallet ~> AllProcessed)
  /\ (AtWallet ~> Delivered)

\* a report is delivered whose first wallet's balance call timed out and whose
\* second wallet's price call timed out
C11_Witness ==
  /\ Delivered
  /\ Len(screen.details) = 2
  /\ screen.details[1].network = <<"T","R","O","N">>
  /\ screen.details[1].symbol = <<"?">>
  /\ screen.details[2].symbol = <<"T","R","X">>
  /\ screen.details[2].amount = UnitsHeld
  /\ screen.details[2].usd = 0

\* a value extract_wallet_group may return: None, or a name that is neither
\* empty nor the reserved key
ProperKey(g) == g = None \/ (g # <<>> /\ g # UNGROUPED)

\* C12: extract_wallet_group returns None or a non-empty string other than
\* "_ungrouped"; in a map group_wallets_by_name returned no bucket is empty
\* and the "_ungrouped" bucket holds only records whose label has no match.
C12_UngroupedKeyIsReserved ==
  /\ (cl_result # Pending => ProperKey(cl_result))
  /\ (gr_groups.returned =>
        /\ \A i \in 1..Len(gr_wallets) : ProperKey(extract_wallet_group(gr_wallets[i].label))
        /\ \A k \in DOMAIN gr_groups.value : gr_groups.value[k] # <<>>
        /\ (UNGROUPED \in DOMAIN gr_groups.value =>
              \A i \in 1..Len(gr_groups.value[UNGROUPED]) :
                extract_wallet_group(gr_groups.value[UNGROUPED][i].label) = None))

\* a map with a named bucket and the "_ungrouped" bucket, which holds a record
\* whose label starts with the reserved key
C12_Witness ==
  /\ gr_groups.returned
  /\ Cardinality(DOMAIN gr_groups.value) >= 2
  /\ UNGROUPED \in DOMAIN gr_groups.value
  /\ \E i \in 1..Len(gr_groups.value[UNGROUPED]) :
       StartsWith(gr_groups.value[UNGROUPED][i].label, UNGROUPED \o <<" ">>)

====
